---- MODULE Spec2Model ----
(***************************************************************************)
(* Model of scripts/jxl_container_fixer.py: extract_codestream and         *)
(* read_box, at byte granularity.  A file is a sequence of bytes (0..255), *)
(* the cursor of the open input file is a byte offset, and every f.read,   *)
(* f.seek and struct.unpack of the source is computed on those bytes.      *)
(***************************************************************************)
EXTENDS Integers, Sequences, FiniteSets, TLC

\* ------------------------------------------------------------------ bounds
\* Most boxes of a generated container whose boxes are all well formed.
MaxBoxes == 3
\* Most boxes of a generated container that holds one deviant box
\* (extended size, or a declared size that is not the box's real size).
MaxDevBoxes == 2
\* Largest jxlp index written into a generated container.
MaxIndex == 2
\* Number of extract_codestream calls made on the same input and output path.
MaxCalls == 2

\* Sizes and offsets are unsigned 32/64-bit values in the file; TLC's
\* integers stop at 2^31-1.  Every decoded value >= Huge is represented by
\* Huge: it lies beyond any offset of a modelled file, so the code cannot
\* tell two such values apart except through the platform (see platform,
\* Answers).
Huge == 4194304

\* ------------------------------------------------------- byte-string helpers
Min(a, b) == IF a < b THEN a ELSE b

\* s[:n]
Prefix(s, n) == SubSeq(s, 1, Min(n, Len(s)))

\* The bytes f.read(n) returns at offset p, for n >= 0 (short at end of file,
\* empty at or beyond it).
ReadAt(f, p, n) ==
    IF p >= Len(f) THEN << >> ELSE SubSeq(f, p + 1, Min(p + n, Len(f)))

\* The bytes f.read() / f.read(-1) returns at offset p.
ReadAll(f, p) == ReadAt(f, p, Len(f))

\* Saturation at Huge.
Sat(n) == IF n > Huge THEN Huge ELSE n

\* struct.unpack('>I', bs)[0] and struct.unpack('>Q', bs)[0]: big-endian
\* unsigned value of a 4- or 8-byte string, saturated at Huge.  A nonzero
\* byte above the low three makes the value at least 2^24, beyond Huge.
BE(bs) ==
    IF \E i \in 1 .. Len(bs) - 3 : bs[i] # 0 THEN Huge
    ELSE Sat(bs[Len(bs) - 2] * 65536 + bs[Len(bs) - 1] * 256 + bs[Len(bs)])

\* Unsigned order of two equally long big-endian byte strings (the order of
\* the integers struct.unpack yields, exact beyond 2^31 as well).
RECURSIVE KeyLess(_, _)
KeyLess(a, b) ==
    IF a = << >> \/ b = << >> THEN FALSE
    ELSE IF a[1] # b[1] THEN a[1] < b[1]
    ELSE KeyLess(Tail(a), Tail(b))

\* ------------------------------------------------------------ byte literals
ContainerMagic == <<0, 0, 0, 12>>
BareMagic == <<255, 10>>
TagJxlc == <<106, 120, 108, 99>>
TagJxlp == <<106, 120, 108, 112>>


\* ------------------------------------------------------- generated inputs
\* Big-endian encoding of n in w bytes (what a writer of the container puts
\* in a size or index field).
RECURSIVE Enc(_, _)
Enc(n, w) == IF w = 0 THEN << >> ELSE Append(Enc(n \div 256, w - 1), n % 256)

\* The 12-byte signature box of a container file.
ContainerSig == <<0, 0, 0, 12, 74, 88, 76, 32, 13, 10, 135, 10>>
\* An unrelated box type ("ftyp").
TagOther == <<102, 116, 121, 112>>

Kinds == {"jxlc", "jxlp", "skip"}
IndicesOf(kind) == IF kind = "jxlp" THEN 0 .. MaxIndex ELSE {0}
\* Payloads of a generated box.  A jxlc box holds a codestream or foreign
\* bytes; the jxlp box of index 0 holds the start of the codestream and the
\* one of index i > 0 the bytes 7, i; an unrelated box is empty or holds bytes
\* that look like a codestream.
PayloadsOf(kind, index) ==
    CASE kind = "jxlc" -> {<<255, 10, 7>>, <<7, 7>>}
      [] kind = "jxlp" -> {IF index = 0 THEN <<255, 10>> ELSE <<7, index>>}
      [] kind = "skip" -> {<< >>, <<255, 10>>}

Tag(kind) ==
    CASE kind = "jxlc" -> TagJxlc [] kind = "jxlp" -> TagJxlp [] OTHER -> TagOther

\* A box as laid out by a writer: ext says the 32-bit size field is 1 and the
\* size is in the 8-byte field; decl is the size the header declares.
HdrLen(b) == IF b.ext THEN 16 ELSE 8
BodyLen(b) == (IF b.kind = "jxlp" THEN 4 ELSE 0) + Len(b.payload)
RealSize(b) == HdrLen(b) + BodyLen(b)
WellFormed(b) == b.decl = RealSize(b)
Plain(b) == WellFormed(b) /\ ~b.ext

EncodeBox(b) ==
    (IF b.ext THEN Enc(1, 4) ELSE Enc(b.decl, 4)) \o Tag(b.kind)
    \o (IF b.ext THEN Enc(b.decl, 8) ELSE << >>)
    \o (IF b.kind = "jxlp" THEN Enc(b.index, 4) ELSE << >>)
    \o b.payload

RECURSIVE EncodeBoxes(_)
EncodeBoxes(bs) ==
    IF bs = << >> THEN << >> ELSE EncodeBox(Head(bs)) \o EncodeBoxes(Tail(bs))

\* Declared sizes a generated box may carry: its real size, 0, the size that
\* makes the computed payload length -1, and a size far beyond the file.
DeclsOf(kind, ext, payload) ==
    LET h == IF ext THEN 16 ELSE 8
        x == IF kind = "jxlp" THEN 4 ELSE 0
    IN  {h + x + Len(payload), 0, h + x - 1, Huge}

Boxes ==
    UNION { UNION { UNION { UNION { { [kind |-> k, ext |-> e, decl |-> d,
                                        index |-> i, payload |-> p] :
                                      d \in DeclsOf(k, e, p) } :
                                    e \in BOOLEAN } :
                            p \in PayloadsOf(k, i) } :
                    i \in IndicesOf(k) } :
            k \in Kinds }
PlainBoxes == { b \in Boxes : Plain(b) }

RECURSIVE SeqsUpTo(_, _)
SeqsUpTo(S, n) ==
    IF n = 0 THEN { << >> }
    ELSE LET shorter == SeqsUpTo(S, n - 1)
         IN  shorter \cup { Append(s, x) : s \in { t \in shorter : Len(t) = n - 1 },
                                           x \in S }

\* Containers of plain boxes, and containers with exactly one deviant box.
PlainLayouts == SeqsUpTo(PlainBoxes, MaxBoxes)
DeviantLayouts ==
    UNION { { [s EXCEPT ![k] = b] : k \in 1 .. Len(s), b \in Boxes \ PlainBoxes } :
            s \in SeqsUpTo(PlainBoxes, MaxDevBoxes) }
Layouts == PlainLayouts \cup DeviantLayouts

\* Files that are not a signature followed by boxes: empty and short files,
\* bare codestreams, foreign files, truncated containers and box headers.
RawFiles ==
    { << >>, <<255>>, <<255, 10>>, <<255, 10, 0, 0, 0, 12, 7>>,
      <<255, 10, 1, 2, 3, 4, 5, 6, 7, 8, 9, 10, 11, 12>>,
      <<0, 0, 0>>, <<0, 0, 0, 13, 255, 10>>, <<137, 80, 78, 71>>,
      ContainerMagic, ContainerMagic \o <<255, 10>>,
      ContainerSig \o Enc(11, 4) \o TagJxlc \o <<255, 10, 7>> \o <<0, 0>>,
      ContainerSig \o Enc(8, 4) \o TagOther \o <<0, 0, 0>>,
      ContainerSig \o <<0, 0, 0, 4>>,
      ContainerSig \o Enc(9, 4) \o <<106>>,
      ContainerSig \o Enc(1, 4) \o TagJxlc \o <<0, 0, 0>>,
      ContainerSig \o Enc(12, 4) \o TagJxlp \o <<0, 0>> }


\* The output file before the first call (an older file at the output path).
OldOutput == <<42>>

\* ------------------------------------------------------------------- state
VARIABLES
    file,         \* bytes of the input file
    layout,       \* the boxes the input was generated from (<< >> for a raw file)
    out,          \* bytes of the file at output_path
    out0,         \* out when the current call started
    nwrites,      \* open(output_path, 'wb') executed by the current call
    platform,     \* does the platform serve a read or seek of a Huge length/offset
    pc,           \* position of the current call in extract_codestream
    pos,          \* f.tell() of the input file
    read_hi,      \* end offset of the furthest byte the current call has read
    parts,        \* codestream_parts: <<index bytes, data>> pairs
    box_type, size, header_size, box_start,   \* locals of the scan loop
    box_at,       \* offset of the cursor when read_box was last called
    codestream_data,                           \* the merged bytes
    ret,          \* the value returned (meaningful when pc = "done")
    calls,        \* calls started so far
    first         \* outcome of the first call: [ret, out], once it has returned

vars == <<file, layout, out, out0, nwrites, platform, pc, pos, read_hi,
          parts, box_type, size, header_size, box_start, box_at, codestream_data,
          ret, calls, first>>

inputs == <<file, layout>>
locals == <<box_type, size, header_size, box_start>>

NoFirst == [ret |-> FALSE, out |-> << >>, set |-> FALSE]

\* State at entry of extract_codestream.
Entry ==
    /\ pc = "start" /\ pos = 0 /\ read_hi = 0 /\ parts = << >>
    /\ box_type = << >> /\ size = 0 /\ header_size = 0 /\ box_start = 0
    /\ box_at = 0
    /\ codestream_data = << >> /\ ret = FALSE /\ nwrites = 0

Init ==
    /\ \/ \E l \in Layouts :
            /\ layout = l
            /\ file = ContainerSig \o EncodeBoxes(l)
       \/ \E r \in RawFiles :
            /\ layout = << >> /\ file = r
    /\ out = OldOutput /\ out0 = OldOutput
    /\ platform = "unknown"
    /\ calls = 1 /\ first = NoFirst
    /\ Entry


\* ------------------------------------------------------------------ read_box
\* read_box(f) with the cursor at p.  eof: fewer than 4 bytes of size were
\* read (the function returns None four times).  raises: struct.unpack('>Q')
\* was handed fewer than 8 bytes.  tell is f.tell() when the function ends.
\* Variant: the 64-bit extension is read but the header still counted as 8.
HeaderSize8(is64) == 8
\* Lines 25-29: header_size is 16 with the 64-bit size extension, else 8.
HeaderSize(is64) == IF is64 THEN 16 ELSE 8

ReadBox(f, p) ==
    LET size_data == ReadAt(f, p, 4)
        p1        == p + Len(size_data)
        typ       == ReadAt(f, p1, 4)
        p2        == p1 + Len(typ)
        size32    == IF Len(size_data) = 4 THEN BE(size_data) ELSE 0
        is64      == size32 = 1
        ext_data  == ReadAt(f, p2, 8)
        p3        == IF is64 THEN p2 + Len(ext_data) ELSE p2
        hs        == HeaderSize(is64)
    IN  [ eof         |-> Len(size_data) < 4,
          raises      |-> Len(size_data) = 4 /\ is64 /\ Len(ext_data) < 8,
          box_type    |-> typ,
          size        |-> IF is64 /\ Len(ext_data) = 8 THEN BE(ext_data) ELSE size32,
          header_size |-> hs,
          box_start   |-> p3 - hs,
          tell        |-> IF Len(size_data) < 4 THEN p1 ELSE p3 ]

\* ---------------------------------------------------------------- the merge
\* list.sort(key=lambda x: x[0]): a stable sort by index.
RECURSIVE InsertPart(_, _)
InsertPart(s, x) ==
    IF s = << >> THEN <<x>>
    ELSE IF KeyLess(x[1], Head(s)[1]) THEN <<x>> \o s
    ELSE <<Head(s)>> \o InsertPart(Tail(s), x)

\* Variant: the parts are left in file order.
FileOrder(ps) == ps
RECURSIVE SortParts(_)
SortParts(ps) ==
    IF ps = << >> THEN << >>
    ELSE InsertPart(SortParts(SubSeq(ps, 1, Len(ps) - 1)), ps[Len(ps)])

\* b''.join([data for _, data in codestream_parts])
RECURSIVE Join(_)
Join(ps) == IF ps = << >> THEN << >> ELSE Head(ps)[2] \o Join(Tail(ps))

\* --------------------------------------------------------------- platform
\* A read of a Huge number of bytes (MemoryError, OverflowError) or a seek to
\* a Huge offset (OSError, ValueError) is served or refused by the platform;
\* what it does the first time it does every time.
Answers(big) ==
    IF big /\ platform = "unknown" THEN {"serves", "refuses"} ELSE {platform}

Max(a, b) == IF a > b THEN a ELSE b
\* read_hi after the bytes from offset p up to e were read.
Touch(p, e) == IF e > p THEN Max(read_hi, Min(e, Len(file))) ELSE read_hi

\* The except clause of extract_codestream (lines 135-138).
Caught ==
    /\ pc' = "done" /\ ret' = FALSE
    /\ UNCHANGED <<inputs, out, out0, nwrites, parts, codestream_data, calls, first>>

\* The locals of the loop after read_box returned h.
Assign(h) ==
    /\ box_type' = h.box_type /\ size' = h.size
    /\ header_size' = h.header_size /\ box_start' = h.box_start


\* ------------------------------------------------- extract_codestream: entry
\* sig = f.read(12)
Sig == ReadAt(file, 0, 12)

\* Variant: no f.seek(0) before the copy.
CopyRest(f) == ReadAll(f, Len(ReadAt(f, 0, 12)))
\* Lines 60-62: f.seek(0), then f.read(): the whole input.
WholeInput(f) == ReadAll(f, 0)

\* Lines 55-63: not a container, bare codestream: copy the whole input.
CopyBare ==
    /\ pc = "start"
    /\ Prefix(Sig, 4) # ContainerMagic
    /\ Prefix(Sig, 2) = BareMagic
    /\ out' = WholeInput(file)
    /\ nwrites' = nwrites + 1
    /\ pos' = Len(file)
    /\ read_hi' = Touch(0, Len(file))
    /\ pc' = "done" /\ ret' = TRUE
    /\ UNCHANGED <<inputs, out0, platform, parts, locals, box_at, codestream_data, calls, first>>

\* Lines 55-67: neither signature.
RejectInvalid ==
    /\ pc = "start"
    /\ Prefix(Sig, 4) # ContainerMagic
    /\ Prefix(Sig, 2) # BareMagic
    /\ pos' = Len(Sig)
    /\ read_hi' = Touch(0, Len(Sig))
    /\ pc' = "done" /\ ret' = FALSE
    /\ UNCHANGED <<inputs, out, out0, nwrites, platform, parts, locals, box_at,
                   codestream_data, calls, first>>

\* Lines 55, 69-73: container signature; the scan starts after the 12 bytes read.
EnterContainer ==
    /\ pc = "start"
    /\ Prefix(Sig, 4) = ContainerMagic
    /\ pos' = Len(Sig)
    /\ read_hi' = Touch(0, Len(Sig))
    /\ parts' = << >>
    /\ pc' = "scan"
    /\ UNCHANGED <<inputs, out, out0, nwrites, platform, locals, box_at, codestream_data,
                   ret, calls, first>>

\* ---------------------------------------------- extract_codestream: the scan
\* Line 76, read_box returned a box: the locals are assigned and the cursor
\* is behind the bytes read_box consumed.
ReadHeader ==
    /\ pc = "scan"
    /\ LET h == ReadBox(file, pos) IN
        /\ ~h.eof /\ ~h.raises
        /\ Assign(h)
        /\ pos' = h.tell
        /\ read_hi' = Touch(pos, h.tell)
    /\ box_at' = pos
    /\ pc' = "box"
    /\ UNCHANGED <<inputs, out, out0, nwrites, platform, parts, codestream_data,
                   ret, calls, first>>

\* Lines 76-79: read_box returns None; the loop ends.
ScanEnd ==
    /\ pc = "scan"
    /\ LET h == ReadBox(file, pos) IN
        /\ h.eof
        /\ pos' = h.tell
        /\ read_hi' = Touch(pos, h.tell)
    /\ pc' = "merge"
    /\ UNCHANGED <<inputs, out, out0, nwrites, platform, parts, locals, box_at,
                   codestream_data, ret, calls, first>>

\* Line 26: struct.unpack('>Q') of a truncated extended size raises inside
\* read_box; lines 135-138 return False.
HeaderRaises ==
    /\ pc = "scan"
    /\ LET h == ReadBox(file, pos) IN
        /\ ~h.eof /\ h.raises
        /\ pos' = h.tell
        /\ read_hi' = Touch(pos, h.tell)
    /\ Caught
    /\ UNCHANGED <<platform, locals, box_at>>

\* Variant: the header length is not taken off the box size.
WholeBox == size
\* Line 85: codestream_size = size - header_size
JxlcLength == size - header_size

\* Line 99: data_size = size - header_size - 4
JxlpLength == size - header_size - 4

\* Line 105: the offset f.seek is given, box_start + size
SkipTarget == box_start + size

\* Variant: no break after the jxlc box.
KeepScanning == "scan"
\* Line 88: break; the loop is left for the merge.
AfterJxlc == "merge"

\* f.read(n) at offset p as the loop uses it: everything left when n = -1.
ReadLen(f, p, n) == IF n = -1 THEN ReadAll(f, p) ELSE ReadAt(f, p, n)

\* Line 96: the four bytes f.read(4) returns for the jxlp index.
IndexBytes == ReadAt(file, pos, 4)

\* Lines 81-88: a jxlc box; its payload is the one part and the loop ends.
ReadJxlc ==
    /\ pc = "box"
    /\ box_type = TagJxlc
    /\ JxlcLength >= -1
    /\ \E a \in Answers(size = Huge) :
         /\ size = Huge => a = "serves"
         /\ platform' = a
    /\ LET codestream == ReadLen(file, pos, JxlcLength) IN
        /\ parts' = Append(parts, <<Enc(0, 4), codestream>>)
        /\ pos' = pos + Len(codestream)
        /\ read_hi' = Touch(pos, pos + Len(codestream))
    /\ pc' = AfterJxlc
    /\ UNCHANGED <<inputs, out, out0, nwrites, locals, box_at, codestream_data,
                   ret, calls, first>>

\* Lines 90-102: a jxlp box; its index and payload are one more part.
ReadJxlp ==
    /\ pc = "box"
    /\ box_type = TagJxlp
    /\ Len(IndexBytes) = 4
    /\ JxlpLength >= -1
    /\ \E a \in Answers(size = Huge) :
         /\ size = Huge => a = "serves"
         /\ platform' = a
    /\ LET data == ReadLen(file, pos + 4, JxlpLength) IN
        /\ parts' = Append(parts, <<IndexBytes, data>>)
        /\ pos' = pos + 4 + Len(data)
        /\ read_hi' = Touch(pos, pos + 4 + Len(data))
    /\ pc' = "scan"
    /\ UNCHANGED <<inputs, out, out0, nwrites, locals, box_at, codestream_data,
                   ret, calls, first>>

\* Lines 103-105: any other box; f.seek(box_start + size).  The offset is
\* never negative (TypeOK: box_start >= 0), so the seek itself does not raise.
SkipBox ==
    /\ pc = "box"
    /\ box_type # TagJxlc /\ box_type # TagJxlp
    /\ \E a \in Answers(size = Huge) :
         /\ size = Huge => a = "serves"
         /\ platform' = a
    /\ pos' = SkipTarget
    /\ pc' = "scan"
    /\ UNCHANGED <<inputs, out, out0, nwrites, read_hi, parts, locals, box_at,
                   codestream_data, ret, calls, first>>

\* Line 96: struct.unpack('>I') of a truncated jxlp index raises.
IndexRaises ==
    /\ pc = "box"
    /\ box_type = TagJxlp
    /\ Len(IndexBytes) < 4
    /\ pos' = pos + Len(IndexBytes)
    /\ read_hi' = Touch(pos, pos + Len(IndexBytes))
    /\ Caught
    /\ UNCHANGED <<platform, locals, box_at>>

\* Lines 86, 100: f.read of a length below -1 raises ValueError.
LengthRaises ==
    /\ pc = "box"
    /\ \/ /\ box_type = TagJxlc
          /\ JxlcLength < -1
          /\ UNCHANGED <<pos, read_hi>>
       \/ /\ box_type = TagJxlp
          /\ Len(IndexBytes) = 4
          /\ JxlpLength < -1
          /\ pos' = pos + 4
          /\ read_hi' = Touch(pos, pos + 4)
    /\ Caught
    /\ UNCHANGED <<platform, locals, box_at>>

\* Lines 86, 100, 105: the platform refuses a Huge read or seek (MemoryError,
\* OverflowError, OSError, ValueError).
PlatformRaises ==
    /\ pc = "box"
    /\ size = Huge
    /\ box_type = TagJxlp => Len(IndexBytes) = 4
    /\ \E a \in Answers(TRUE) : a = "refuses" /\ platform' = a
    /\ pos' = pos + (IF box_type = TagJxlp THEN 4 ELSE 0)
    /\ read_hi' = Touch(pos, pos + (IF box_type = TagJxlp THEN 4 ELSE 0))
    /\ Caught
    /\ UNCHANGED <<locals, box_at>>

\* --------------------------------------------- extract_codestream: the output
\* Variant: the output is opened for writing before the parts are looked at.
NoCodestreamTruncates ==
    /\ pc = "merge"
    /\ parts = << >>
    /\ pc' = "done" /\ ret' = FALSE
    /\ out' = << >> /\ nwrites' = nwrites + 1
    /\ UNCHANGED <<inputs, out0, platform, pos, read_hi, parts, locals, box_at,
                   codestream_data, calls, first>>

\* Lines 107-110: nothing was collected.
NoCodestream ==
    /\ pc = "merge"
    /\ parts = << >>
    /\ pc' = "done" /\ ret' = FALSE
    /\ UNCHANGED <<inputs, out, out0, nwrites, platform, pos, read_hi, parts, locals, box_at,
                   codestream_data, calls, first>>

\* Variant: the output is opened in append mode.
OpenAppend(old) == old
\* Line 121: open(output_path, 'wb') truncates the file.
OpenTruncate(old) == << >>

\* Lines 112-122: sort when there are several parts, join, write the output.
WriteOutput ==
    /\ pc = "merge"
    /\ parts # << >>
    /\ LET merged == IF Len(parts) > 1 THEN SortParts(parts) ELSE parts IN
        /\ parts' = merged
        /\ codestream_data' = Join(merged)
        /\ out' = OpenTruncate(out) \o Join(merged)
    /\ nwrites' = nwrites + 1
    /\ pc' = "verify"
    /\ UNCHANGED <<inputs, out0, platform, pos, read_hi, locals, box_at, ret,
                   calls, first>>

\* Variant: a failed check puts the old output back.
VerifyThenRetract ==
    /\ pc = "verify"
    /\ ret' = (Prefix(codestream_data, 2) = BareMagic)
    /\ out' = IF ret' THEN out ELSE out0
    /\ pc' = "done"
    /\ UNCHANGED <<inputs, out0, nwrites, platform, pos, read_hi, parts, locals, box_at,
                   codestream_data, calls, first>>

\* Lines 127-133: the magic check on the bytes already written.
VerifyHeader ==
    /\ pc = "verify"
    /\ ret' = (Prefix(codestream_data, 2) = BareMagic)
    /\ pc' = "done"
    /\ UNCHANGED <<inputs, out, out0, nwrites, platform, pos, read_hi, parts, locals, box_at,
                   codestream_data, calls, first>>

\* ------------------------------------------------------------ the next call
\* main() is run again with the same two paths: the input is unchanged, the
\* output is what the call before left.
CallAgain ==
    /\ pc = "done"
    /\ calls < MaxCalls
    /\ calls' = calls + 1
    /\ first' = IF first.set THEN first ELSE [ret |-> ret, out |-> out, set |-> TRUE]
    /\ out0' = out
    /\ pc' = "start" /\ pos' = 0 /\ read_hi' = 0 /\ parts' = << >>
    /\ box_type' = << >> /\ size' = 0 /\ header_size' = 0 /\ box_start' = 0
    /\ box_at' = 0
    /\ codestream_data' = << >> /\ ret' = FALSE /\ nwrites' = 0
    /\ UNCHANGED <<inputs, out, platform>>

Next ==
    \/ CopyBare \/ RejectInvalid \/ EnterContainer
    \/ ReadHeader \/ ScanEnd \/ HeaderRaises
    \/ ReadJxlc \/ ReadJxlp \/ SkipBox
    \/ IndexRaises \/ LengthRaises \/ PlatformRaises
    \/ NoCodestream \/ WriteOutput \/ VerifyHeader
    \/ CallAgain

Spec == Init /\ [][Next]_vars

\* The interpreter runs the call to its return: every enabled step is taken.
FairSpec == Spec /\ WF_vars(Next)

TypeOK ==
    /\ pc \in {"start", "scan", "box", "merge", "verify", "done"}
    /\ platform \in {"unknown", "serves", "refuses"}
    /\ pos \in Nat /\ read_hi \in 0 .. Len(file)
    /\ calls \in 1 .. MaxCalls
    /\ ret \in BOOLEAN
    /\ box_start \in Nat /\ size \in 0 .. Huge /\ header_size \in {0, 8, 16}


\* ============================================================== properties
IsContainerFile == Prefix(Sig, 4) = ContainerMagic
IsBareFile == ~IsContainerFile /\ Prefix(Sig, 2) = BareMagic
Written == pc \in {"verify", "done"} /\ nwrites = 1

\* Offset in the file of the header of the k-th generated box, and of the
\* first byte after it.
RECURSIVE BoxOffset(_)
BoxOffset(k) == IF k = 1 THEN Len(ContainerSig) ELSE BoxOffset(k - 1) + RealSize(layout[k - 1])
BoxEnd(k) == BoxOffset(k) + RealSize(layout[k])

\* The payloads of the generated jxlp boxes of index i, in file order.
RECURSIVE PayloadsOfIndex(_, _)
PayloadsOfIndex(bs, i) ==
    IF bs = << >> THEN << >>
    ELSE (IF Head(bs).kind = "jxlp" /\ Head(bs).index = i THEN Head(bs).payload ELSE << >>)
         \o PayloadsOfIndex(Tail(bs), i)

\* The payloads of the generated jxlp boxes by ascending index 0 .. i.
RECURSIVE InIndexOrder(_, _)
InIndexOrder(bs, i) ==
    IF i < 0 THEN << >> ELSE InIndexOrder(bs, i - 1) \o PayloadsOfIndex(bs, i)

\* A generated container of well-formed boxes, none a jxlc box, whose jxlp
\* boxes (at least one) carry distinct indices.
JxlpContainer ==
    /\ layout # << >>
    /\ \A k \in 1 .. Len(layout) : WellFormed(layout[k]) /\ layout[k].kind # "jxlc"
    /\ \E k \in 1 .. Len(layout) : layout[k].kind = "jxlp"
    /\ \A j, k \in 1 .. Len(layout) :
         (j # k /\ layout[j].kind = "jxlp" /\ layout[k].kind = "jxlp")
            => layout[j].index # layout[k].index

\* C1: for a container whose jxlp boxes carry distinct indices in any file
\* order, the bytes written to the output are the jxlp payloads concatenated
\* in ascending index order, not in file order.
C1_IndexOrder ==
    (JxlpContainer /\ pc \in {"verify", "done"})
        => (nwrites = 1 /\ out = InIndexOrder(layout, MaxIndex))

\* C1 witness: file order [2,0,1] has returned, the output is in order [0,1,2].
C1_Witness ==
    /\ pc = "done" /\ ret
    /\ Len(layout) = 3
    /\ \A k \in 1 .. 3 : layout[k].kind = "jxlp" /\ Plain(layout[k])
    /\ <<layout[1].index, layout[2].index, layout[3].index>> = <<2, 0, 1>>
    /\ out = <<255, 10, 7, 1, 7, 2>>

\* A generated container in which well-formed unrelated boxes (n of them)
\* are followed by a well-formed jxlc box at position n + 1.
JxlcAfterUnrelated(n) ==
    /\ Len(layout) > n
    /\ \A k \in 1 .. n : layout[k].kind = "skip" /\ WellFormed(layout[k])
    /\ layout[n + 1].kind = "jxlc" /\ WellFormed(layout[n + 1])

\* C2: when unrelated boxes precede a jxlc box, the output is the jxlc
\* payload alone (no byte of the unrelated boxes), and no byte located after
\* the jxlc box is ever read: the scan stops with the cursor at the box's end.
C2_StopsAtJxlc ==
    /\ \A n \in 1 .. Len(layout) - 1 :
        JxlcAfterUnrelated(n) =>
            /\ read_hi <= BoxEnd(n + 1)
            /\ pc \in {"merge", "verify", "done"} =>
                 /\ pos = BoxEnd(n + 1)
                 /\ parts = << <<Enc(0, 4), layout[n + 1].payload>> >>
            /\ pc \in {"verify", "done"} => out = layout[n + 1].payload
    \* in any file: after a jxlc box whose size covers its header the loop is
    \* over and nothing beyond box_start + size has been read
    /\ (pc \notin {"start", "box"} /\ box_type = TagJxlc /\ size >= header_size)
         => (pc # "scan" /\ read_hi <= box_start + size /\ pos <= box_start + size)

\* C2 witness: an unrelated box, a jxlc box and a further box; the call has
\* returned having read exactly up to the end of the jxlc box.
C2_Witness ==
    /\ Len(layout) = 3 /\ JxlcAfterUnrelated(1)
    /\ pc = "done" /\ ret
    /\ read_hi = BoxEnd(2) /\ read_hi < Len(file)
    /\ out = layout[2].payload

\* C3: for every input whose first two bytes are FF 0A the call reports
\* success and the output file is byte-identical to the whole input.
C3_BareCopy ==
    (pc = "done" /\ Prefix(file, 2) = BareMagic) => (ret /\ out = file)

\* C3 witness: a bare codestream longer than the 12 signature bytes was copied.
C3_Witness ==
    /\ pc = "done" /\ Prefix(file, 2) = BareMagic /\ Len(file) > 12
    /\ ret /\ out = file /\ nwrites = 1

\* C4: an input of invalid signature, and a container whose scan collected no
\* jxlc/jxlp segment, make the call report failure without any write to the
\* output path: the output file is as it was before the call.
C4_NoWriteOnNoCodestream ==
    (pc = "done" /\ ~IsBareFile /\ (~IsContainerFile \/ parts = << >>))
        => (~ret /\ nwrites = 0 /\ out = out0)

\* C4 witness: a container of unrelated boxes only was scanned to its end.
C4_Witness ==
    /\ pc = "done" /\ IsContainerFile /\ parts = << >>
    /\ layout # << >> /\ \A k \in 1 .. Len(layout) : layout[k].kind = "skip"
    /\ pos = Len(file)
    /\ ~ret /\ out = OldOutput

\* C5: the merged bytes are in the output file when the magic check runs, and
\* when they do not start with FF 0A the call reports failure with the output
\* file still holding exactly the merged bytes.
C5_WriteThenVerify ==
    /\ pc = "verify" => (nwrites = 1 /\ out = Join(parts) /\ out = codestream_data)
    /\ (pc = "done" /\ IsContainerFile /\ nwrites = 1
          /\ Prefix(Join(parts), 2) # BareMagic)
         => (~ret /\ out = Join(parts))

\* C5 witness: a call wrote merged bytes without the magic and reported failure.
C5_Witness ==
    /\ pc = "done" /\ IsContainerFile /\ nwrites = 1
    /\ Len(parts) > 1
    /\ Prefix(Join(parts), 2) # BareMagic
    /\ ~ret /\ out = Join(parts) /\ out # out0


\* A generated container with exactly one jxlc box, at position n + 1, which
\* is well formed and follows n well-formed unrelated boxes.
OneJxlc(n) ==
    /\ n + 1 \in 1 .. Len(layout)
    /\ \A k \in 1 .. n : layout[k].kind = "skip" /\ WellFormed(layout[k])
    /\ \A k \in 1 .. Len(layout) : layout[k].kind = "jxlc" <=> k = n + 1
    /\ WellFormed(layout[n + 1])

\* C6: for a container with exactly one jxlc box of payload length L
\* (declared size = header length + L) the output written has length exactly
\* L: it is the payload; with a codestream as the payload it begins with
\* FF 0A and the call reports success.
C6_SingleJxlc ==
    \A n \in 0 .. Len(layout) - 1 :
        (OneJxlc(n) /\ pc \in {"verify", "done"}) =>
            LET payload == layout[n + 1].payload IN
            /\ nwrites = 1
            /\ Len(out) = layout[n + 1].decl - HdrLen(layout[n + 1])
            /\ out = payload
            /\ Prefix(payload, 2) = BareMagic =>
                 (Prefix(out, 2) = BareMagic /\ (pc = "done" => ret))

\* C6 witness: one jxlc box of payload length 3 ahead of another box; the
\* call returned success with an output of 3 bytes starting FF 0A.
C6_Witness ==
    /\ Len(layout) >= 2 /\ OneJxlc(0)
    /\ pc = "done" /\ ret
    /\ Len(layout[1].payload) = 3 /\ Len(out) = 3 /\ Prefix(out, 2) = BareMagic

\* C7: a box whose 32-bit size field is 1, followed by the 64-bit size V, is
\* handled with header length 16 and span V: the skip of an unrelated box
\* leaves the cursor at start + V, a jxlc payload read is V - 16 bytes and a
\* jxlp payload read V - 16 - 4 bytes (as far as the file has them).
C7_ExtendedSize ==
    [][ \A k \in 1 .. Len(layout) :
          LET b == layout[k]
              V == b.decl
              start == BoxOffset(k)
              left == Len(file) - start
          IN
          /\ (pc = "scan" /\ b.ext /\ pos = start) =>
               /\ pc' = "box"
               /\ header_size' = 16 /\ size' = V /\ box_start' = start
               /\ pos' = start + 16
          /\ (pc = "box" /\ b.ext /\ box_at = start) =>
               /\ (b.kind = "skip" /\ pc' = "scan") => pos' = start + V
               /\ (b.kind = "jxlc" /\ pc' = "merge" /\ V >= 16) =>
                    /\ Len(parts') = Len(parts) + 1
                    /\ Len(parts'[Len(parts')][2]) = Min(V - 16, left - 16)
                    /\ WellFormed(b) => parts'[Len(parts')][2] = b.payload
               /\ (b.kind = "jxlp" /\ pc' = "scan" /\ V >= 20) =>
                    /\ Len(parts') = Len(parts) + 1
                    /\ Len(parts'[Len(parts')][2]) = Min(V - 20, left - 20)
                    /\ WellFormed(b) =>
                         parts'[Len(parts')] = <<Enc(b.index, 4), b.payload>>
      ]_vars

\* C7 witness: an unrelated extended-size box ahead of another box has been
\* skipped; the cursor is at its start + V, the header length used is 16.
C7_Witness ==
    /\ pc = "scan"
    /\ \E k \in 1 .. Len(layout) - 1 :
         /\ layout[k].ext /\ layout[k].kind = "skip" /\ WellFormed(layout[k])
         /\ box_start = BoxOffset(k) /\ box_at = BoxOffset(k) /\ box_type = TagOther
         /\ header_size = 16 /\ size = layout[k].decl
         /\ pos = box_start + size /\ pos = BoxOffset(k + 1)

\* C8: a further call on the same unchanged input and the same output path
\* returns what the first call returned and leaves the same output bytes,
\* whatever output file it found.
C8_Idempotent ==
    (pc = "done" /\ calls >= 2) => (first.set /\ ret = first.ret /\ out = first.out)

\* C8 witness: the second call on a container returned success over the
\* output the first call had left.
C8_Witness ==
    /\ pc = "done" /\ calls = 2 /\ IsContainerFile /\ Len(layout) >= 2
    /\ ret /\ nwrites = 1 /\ out0 = out /\ out # OldOutput /\ first.ret

\* C9: for every finite container input the scan terminates and the call
\* returns an outcome.
C9_Terminates == <>(pc = "done")

\* C10: every step of the scan moves the cursor forward: read_box leaves it
\* beyond the offset at which the header started, and so does what follows
\* for that box (the jxlc read, the jxlp read, the skip).
C10_CursorForward ==
    [][ /\ pc = "scan" /\ pc' = "box" => pos' > pos
        /\ pc = "box" => pos' > box_at ]_vars

\* The k-th generated box declares a size below its header length (8 or 16),
\* or is a jxlp box declaring less than header length + 4.
Malformed(b) ==
    \/ b.decl < HdrLen(b)
    \/ b.kind = "jxlp" /\ b.decl < HdrLen(b) + 4

\* The scan reaches the header of the k-th generated box: the boxes before it
\* are well formed and none of them is a jxlc box.
ScanReaches(k) ==
    /\ k \in 1 .. Len(layout)
    /\ \A j \in 1 .. k - 1 : WellFormed(layout[j]) /\ layout[j].kind # "jxlc"

\* C11: when the scan reaches a malformed box (declared size below the header
\* length, or a jxlp box below header length + 4) the call reports failure;
\* it never writes an output nor reports success on a payload read with a
\* negative length.
C11_MalformedRejected ==
    \A k \in 1 .. Len(layout) :
        (ScanReaches(k) /\ Malformed(layout[k]) /\ pc \in {"verify", "done"})
            => (nwrites = 0 /\ (pc = "done" => ~ret))

====
